---- MODULE Spec2Model ----
(***************************************************************************)
(* Model of the validation engine of package atom (validation.go) over the *)
(* data model of feed.go.  A caller builds a Feed and an Entry value field *)
(* by field, nests them (Feed.Entry, Entry.Source.Feed) and calls          *)
(* Feed.Validate or Entry.Validate; the call's outcome is kept in result.  *)
(* fresh holds the values the caller starts a Feed and an Entry from: the  *)
(* zero value, or a literal with the required id, title and updated set.   *)
(***************************************************************************)
EXTENDS Integers, Sequences, FiniteSets, TLC

VARIABLES feed, entry, fresh, size, result

vars == <<feed, entry, fresh, size, result>>

(* Number of fields set and elements appended by the caller, at most. *)
MaxSize == 3

(***************************************************************************)
(* Strings handed to the external syntax checkers, and their verdicts.     *)
(***************************************************************************)
GoodURL == "http://john.doe"
BadURL == "%zz"
GoodEmail == "john@test.com"
(* the addresses of the sample feed, which the tests validate to nil *)
GoodEmails == {GoodEmail, "jane@test.com", "contrib1@test.com", "contrib2@test.com"}
(* an address without local part: no addr-spec, and no phrase before it *)
BadEmail == "@test.com"
GoodTime == "2006-11-04T09:11:03-08:00"
BadTime == "bad"

(* url.Parse: the error's text, or <<>> for a nil error.  The empty string *)
(* parses as an empty URL reference.                                       *)
urlParse(s) ==
    IF s = BadURL THEN <<"parse \"%zz\": invalid URL escape \"%zz\"">> ELSE <<>>

(* mail.ParseAddress, on the addresses above: nil for the addr-specs of    *)
(* the sample feed.  BadEmail has no addr-spec, and the phrase read in its *)
(* place fails on its first word; a lone atom is a phrase that no          *)
(* angle-addr follows.  The texts are those of one net/mail, the one whose *)
(* net/url gives the text of urlParse; the older wording that the README   *)
(* quotes ("mail: missing phrase") is not in it.  No verdict is modelled   *)
(* for any other string.                                                   *)
mailParseAddress(s) ==
    CASE s \in GoodEmails -> <<>>
      [] s = BadEmail -> <<"mail: missing word in phrase: mail: invalid string">>
      [] s = "not-an-email" -> <<"mail: missing '@' or angle-addr">>

(* time.Parse(AtomTimeFormat, s) *)
timeParse(s) ==
    CASE s = GoodTime -> <<>>
      [] s = "" -> <<"parsing time \"\" as \"2006-01-02T15:04:05Z07:00\": cannot parse \"\" as \"2006\"">>
      [] s = BadTime -> <<"parsing time \"bad\" as \"2006-01-02T15:04:05Z07:00\": cannot parse \"bad\" as \"2006\"">>

(***************************************************************************)
(* The issue aggregator.  A *ValidationError under construction is a       *)
(* record of its issues and of whether the pass has panicked; a returned   *)
(* error is nil, a *ValidationError, or no return at all (a panic that     *)
(* unwinds the call).                                                      *)
(***************************************************************************)
NewValidationError == [issues |-> <<>>, fault |-> FALSE]

NilError == [kind |-> "nil", issues |-> <<>>]

Panic == [kind |-> "panic", issues |-> <<>>]

MergeDropping(err, other) ==
    IF err.fault THEN err
    ELSE IF other.kind = "panic" THEN [err EXCEPT !.fault = TRUE]
    ELSE IF other.kind = "nil" THEN err
    ELSE [err EXCEPT !.issues = Append(@, Head(other.issues))]

Merge(err, other) ==
    IF err.fault THEN err
    ELSE IF other.kind = "panic" THEN [err EXCEPT !.fault = TRUE]
    ELSE IF other.kind = "nil" THEN err
    ELSE [err EXCEPT !.issues = @ \o other.issues]

Add(err, issue) ==
    IF err.fault THEN err ELSE [err EXCEPT !.issues = Append(@, issue)]

(* AddErr takes the error a syntax checker returned; the call sites guard  *)
(* it with err != nil, an empty parse result here.                         *)
AddErr(err, parsed) ==
    IF err.fault \/ parsed = <<>> THEN err
    ELSE [err EXCEPT !.issues = Append(@, parsed[1])]

NilIfEmpty(err) ==
    IF err.fault THEN Panic
    ELSE IF Len(err.issues) = 0 THEN NilError
    ELSE [kind |-> "err", issues |-> err.issues]

(* A nil pointer dereference: the pass stops here. *)
NilDereference(err) == [err EXCEPT !.fault = TRUE]

RECURSIVE MergeEach(_, _)
(* for _, x := range xs { errs.Merge(x.validate()) }, over the results *)
MergeEach(err, results) ==
    IF results = <<>> THEN err
    ELSE MergeEach(Merge(err, Head(results)), Tail(results))

(***************************************************************************)
(* Leaf validators.                                                        *)
(***************************************************************************)
validateCommon(common) ==
    LET e0 == NewValidationError
        e1 == IF common.Base # "" THEN AddErr(e0, urlParse(common.Base)) ELSE e0
    IN  NilIfEmpty(e1)

TextTypeMsg == "Text.Type must be either: text, html or xhtml."

TextValidateAlwaysEnumerated(text, isContent) ==
    LET e0 == NewValidationError
        e1 == Merge(e0, validateCommon(text.Common))
        e2 == IF text.Type # "" /\ text.Type \notin {"text", "html", "xhtml"}
              THEN Add(e1, TextTypeMsg) ELSE e1
        e3 == IF text.Src # "" THEN AddErr(e2, urlParse(text.Src)) ELSE e2
    IN  NilIfEmpty(e3)

TextValidate(text, isContent) ==
    LET e0 == NewValidationError
        e1 == Merge(e0, validateCommon(text.Common))
        e2 == IF ~isContent
                 /\ text.Type # ""
                 /\ text.Type # "text" /\ text.Type # "html" /\ text.Type # "xhtml"
              THEN Add(e1, TextTypeMsg) ELSE e1
        e3 == IF text.Src # "" THEN AddErr(e2, urlParse(text.Src)) ELSE e2
    IN  NilIfEmpty(e3)

PersonValidate(person) ==
    LET e0 == NewValidationError
        e1 == Merge(e0, validateCommon(person.Common))
        e2 == IF person.URI # "" THEN AddErr(e1, urlParse(person.URI)) ELSE e1
        e3 == IF person.Email # "" THEN AddErr(e2, mailParseAddress(person.Email)) ELSE e2
    IN  NilIfEmpty(e3)

TimeStrValidate(timeStr) ==
    NilIfEmpty(AddErr(NewValidationError, timeParse(timeStr)))

CategoryValidate(category) ==
    LET e0 == NewValidationError
        e1 == Merge(e0, validateCommon(category.Common))
        e2 == IF category.Scheme # "" THEN AddErr(e1, urlParse(category.Scheme)) ELSE e1
    IN  NilIfEmpty(e2)

GeneratorValidate(generator) ==
    LET e0 == NewValidationError
        e1 == Merge(e0, validateCommon(generator.Common))
        e2 == IF generator.URI # "" THEN AddErr(e1, urlParse(generator.URI)) ELSE e1
    IN  NilIfEmpty(e2)

LinkValidate(link) ==
    LET e0 == NewValidationError
        e1 == Merge(e0, validateCommon(link.Common))
        e2 == AddErr(e1, urlParse(link.Href))
    IN  NilIfEmpty(e2)

(***************************************************************************)
(* Entry.Validate and Feed.Validate, step by step in the order of the      *)
(* code.  A pointer field is a sequence of length 0 (nil) or 1.            *)
(***************************************************************************)
RECURSIVE EntryValidate(_), FeedValidate(_), EntryValidateSourceAtStep9(_)

DupAlternateMsg == "Only one Feed.Link with rel=\"alternate\" can exist."

RECURSIVE LinkLoopOnce(_, _, _)
LinkLoopOnce(err, links, foundAlternate) ==
    IF links = <<>> THEN err
    ELSE LET link == Head(links)
             rest == Tail(links)
             e1 == Merge(err, LinkValidate(link))
         IN  IF link.Rel = "alternate"
             THEN IF foundAlternate
                  THEN MergeEach(Add(e1, DupAlternateMsg),
                                 [i \in 1..Len(rest) |-> LinkValidate(rest[i])])
                  ELSE LinkLoopOnce(e1, rest, TRUE)
             ELSE LinkLoopOnce(e1, rest, foundAlternate)

RECURSIVE LinkLoop(_, _, _)
(* The loop over entry.Link / feed.Link with its foundAlternate flag. *)
LinkLoop(err, links, foundAlternate) ==
    IF links = <<>> THEN err
    ELSE LET link == Head(links)
             e1 == Merge(err, LinkValidate(link))
         IN  IF link.Rel = "alternate"
             THEN IF foundAlternate
                  THEN LinkLoop(Add(e1, DupAlternateMsg), Tail(links), foundAlternate)
                  ELSE LinkLoop(e1, Tail(links), TRUE)
             ELSE LinkLoop(e1, Tail(links), foundAlternate)

Persons(err, persons) ==
    MergeEach(err, [i \in 1..Len(persons) |-> PersonValidate(persons[i])])

Categories(err, categories) ==
    MergeEach(err, [i \in 1..Len(categories) |-> CategoryValidate(categories[i])])

EntryIDMsg == "Entry.ID can't be empty."
EntryTitleMsg == "Entry.Title can't be empty."
EntryUpdatedMsg == "Entry.Updated can't be empty."
EntrySourceMsg == "Entry.Source can't contain any entries."

EntryID(err, e) == IF e.ID = "" THEN Add(err, EntryIDMsg) ELSE err

EntryPublished(err, e) ==
    IF e.Published # "" THEN Merge(err, TimeStrValidate(e.Published)) ELSE err

(* entry.Source.Feed.Entry dereferences Source.Feed, which may be nil. *)
EntrySourceEntries(err, e) ==
    IF err.fault THEN err
    ELSE IF e.Source # <<>>
    THEN IF e.Source[1].Feed = <<>> THEN NilDereference(err)
         ELSE IF Len(e.Source[1].Feed[1].Entry) > 0 THEN Add(err, EntrySourceMsg)
         ELSE err
    ELSE err

EntrySummary(err, e) ==
    IF e.Summary # <<>> THEN Merge(err, TextValidate(e.Summary[1], FALSE)) ELSE err

EntryTitle(err, e) == IF e.Title = "" THEN Add(err, EntryTitleMsg) ELSE err

EntryUpdatedAlwaysParsing(err, e) ==
    IF e.Updated # "" THEN Merge(err, TimeStrValidate(e.Updated))
    ELSE Add(Merge(err, TimeStrValidate(e.Updated)), EntryUpdatedMsg)

EntryUpdated(err, e) ==
    IF e.Updated # "" THEN Merge(err, TimeStrValidate(e.Updated))
    ELSE Add(err, EntryUpdatedMsg)

EntrySourceFeedSkipped(err, e) ==
    IF err.fault THEN err
    ELSE IF e.Source # <<>> /\ e.Source[1].Feed = <<>> THEN NilDereference(err)
    ELSE err

EntrySourceFeed(err, e) ==
    IF err.fault THEN err
    ELSE IF e.Source # <<>>
    THEN IF e.Source[1].Feed = <<>> THEN NilDereference(err)
         ELSE Merge(err, FeedValidate(e.Source[1].Feed[1]))
    ELSE err

EntryContent(err, e) ==
    IF e.Content # <<>> THEN Merge(err, TextValidate(e.Content[1], TRUE)) ELSE err

EntryValidateSourceAtStep9(e) ==
    LET e1 == Merge(NewValidationError, validateCommon(e.Common))
        e2 == Persons(e1, e.Author)
        e3 == Categories(e2, e.Category)
        e4 == EntryContent(e3, e)
        e5 == Persons(e4, e.Contributor)
        e6 == EntryID(e5, e)
        e7 == LinkLoop(e6, e.Link, FALSE)
        e8 == EntryPublished(e7, e)
        e9 == EntrySourceFeed(EntrySourceEntries(e8, e), e)
        e10 == EntrySummary(e9, e)
        e11 == EntryTitle(e10, e)
        e12 == EntryUpdated(e11, e)
    IN  NilIfEmpty(e12)

EntryValidate(e) ==
    LET e1 == Merge(NewValidationError, validateCommon(e.Common))
        e2 == Persons(e1, e.Author)
        e3 == Categories(e2, e.Category)
        e4 == EntryContent(e3, e)
        e5 == Persons(e4, e.Contributor)
        e6 == EntryID(e5, e)
        e7 == LinkLoop(e6, e.Link, FALSE)
        e8 == EntryPublished(e7, e)
        e9 == EntrySourceEntries(e8, e)
        e10 == EntrySummary(e9, e)
        e11 == EntryTitle(e10, e)
        e12 == EntryUpdated(e11, e)
        e13 == EntrySourceFeed(e12, e)
    IN  NilIfEmpty(e13)

AuthorMsg == "Author must be present in Feed or in every Entry."
FeedIDMsg == "Feed.ID can't be empty."
FeedTitleMsg == "Feed.Title can't be empty."
FeedUpdatedMsg == "Feed.Updated can't be empty."

RECURSIVE AuthorLoopNoBreak(_, _)
AuthorLoopNoBreak(err, entries) ==
    IF entries = <<>> THEN err
    ELSE IF Len(Head(entries).Author) = 0
    THEN AuthorLoopNoBreak(Add(err, AuthorMsg), Tail(entries))
    ELSE AuthorLoopNoBreak(err, Tail(entries))

RECURSIVE AuthorLoop(_, _)
(* for _, entry := range feed.Entry, left by break at the first entry *)
(* without an author                                                  *)
AuthorLoop(err, entries) ==
    IF entries = <<>> THEN err
    ELSE IF Len(Head(entries).Author) = 0 THEN Add(err, AuthorMsg)
    ELSE AuthorLoop(err, Tail(entries))

FeedAuthorCoverage(err, f) ==
    IF Len(f.Author) = 0 THEN AuthorLoop(err, f.Entry) ELSE err

FeedGenerator(err, f) ==
    IF f.Generator # <<>> THEN Merge(err, GeneratorValidate(f.Generator[1])) ELSE err

FeedIcon(err, f) == IF f.Icon # "" THEN AddErr(err, urlParse(f.Icon)) ELSE err

FeedIDUnlessOtherIssues(err, f) ==
    IF f.ID = "" /\ err.issues = <<>> THEN Add(err, FeedIDMsg) ELSE err

FeedID(err, f) == IF f.ID = "" THEN Add(err, FeedIDMsg) ELSE err

FeedLogo(err, f) == IF f.Logo # "" THEN AddErr(err, urlParse(f.Logo)) ELSE err

FeedTitle(err, f) == IF f.Title = "" THEN Add(err, FeedTitleMsg) ELSE err

FeedUpdatedOnce(err, f) ==
    IF f.Updated # "" THEN Merge(err, TimeStrValidate(f.Updated))
    ELSE Add(err, FeedUpdatedMsg)

(* The two consecutive checks of feed.Updated. *)
FeedUpdated(err, f) ==
    LET e1 == IF f.Updated = "" THEN Add(err, FeedUpdatedMsg) ELSE err
    IN  IF f.Updated # "" THEN Merge(e1, TimeStrValidate(f.Updated))
        ELSE Add(e1, FeedUpdatedMsg)

FeedEntries(err, f) ==
    MergeEach(err, [i \in 1..Len(f.Entry) |-> EntryValidate(f.Entry[i])])

FeedValidate(f) ==
    LET e1 == Merge(NewValidationError, validateCommon(f.Common))
        e2 == Persons(e1, f.Author)
        e3 == FeedAuthorCoverage(e2, f)
        e4 == Categories(e3, f.Category)
        e5 == Persons(e4, f.Contributor)
        e6 == FeedGenerator(e5, f)
        e7 == FeedIcon(e6, f)
        e8 == FeedID(e7, f)
        e9 == LinkLoop(e8, f.Link, FALSE)
        e10 == FeedLogo(e9, f)
        e11 == FeedTitle(e10, f)
        e12 == FeedUpdated(e11, f)
        e13 == FeedEntries(e12, f)
    IN  NilIfEmpty(e13)

(***************************************************************************)
(* The data model: the zero values of Feed and Entry, and the values the   *)
(* caller puts into their fields.                                          *)
(***************************************************************************)
Common(base) == [Base |-> base]

Person(base, uri, email) == [Common |-> Common(base), URI |-> uri, Email |-> email]

Category(term, scheme) == [Common |-> Common(""), Term |-> term, Scheme |-> scheme]

Generator(uri) == [Common |-> Common(""), URI |-> uri]

Link(href, rel) == [Common |-> Common(""), Href |-> href, Rel |-> rel]

Text(type, src) == [Common |-> Common(""), Type |-> type, Src |-> src]

Source(feedPointer) == [Feed |-> feedPointer]

ZeroEntry ==
    [Common |-> Common(""), Author |-> <<>>, Category |-> <<>>, Content |-> <<>>,
     Contributor |-> <<>>, ID |-> "", Link |-> <<>>, Published |-> "",
     Source |-> <<>>, Summary |-> <<>>, Title |-> "", Updated |-> ""]

ZeroFeed ==
    [Common |-> Common(""), Author |-> <<>>, Category |-> <<>>, Contributor |-> <<>>,
     Generator |-> <<>>, Icon |-> "", ID |-> "", Link |-> <<>>, Logo |-> "",
     Title |-> "", Updated |-> "", Entry |-> <<>>]

URLValues == {GoodURL, BadURL}
TimeValues == {GoodTime, BadTime}
PersonValues ==
    {Person("", GoodURL, GoodEmail), Person("", "", BadEmail), Person(BadURL, "", "")}
CategoryValues ==
    {Category("testcat", GoodURL), Category("", ""), Category("testcat", BadURL)}
GeneratorValues == {Generator(GoodURL), Generator(BadURL)}
LinkValues ==
    {Link(GoodURL, "alternate"), Link(GoodURL, "self"), Link(BadURL, "alternate")}
TextValues == {Text("html", ""), Text("invalid", ""), Text("", BadURL)}

NoResult == [subject |-> "none", kind |-> "nil", issues |-> <<>>]

MinimalEntry ==
    [ZeroEntry EXCEPT !.ID = "http://www.test.com/1", !.Title = "Test entry",
                      !.Updated = GoodTime]

MinimalFeed ==
    [ZeroFeed EXCEPT !.ID = "http://www.test.com/blog", !.Title = "Test feed",
                     !.Updated = GoodTime]

Init ==
    /\ fresh \in {[feed |-> ZeroFeed, entry |-> ZeroEntry],
                 [feed |-> MinimalFeed, entry |-> MinimalEntry]}
    /\ feed = fresh.feed
    /\ entry = fresh.entry
    /\ size = 0
    /\ result = NoResult

(* One assignment by the caller to the feed or the entry it is building. *)
Build(f, e) ==
    /\ result.subject = "none"
    /\ size < MaxSize
    /\ feed' = f
    /\ entry' = e
    /\ size' = size + 1
    /\ UNCHANGED <<fresh, result>>

SetFeedBase ==
    \E v \in URLValues :
        feed.Common.Base = "" /\ Build([feed EXCEPT !.Common.Base = v], entry)

AddFeedAuthor ==
    \E v \in PersonValues : Build([feed EXCEPT !.Author = Append(@, v)], entry)

AddFeedCategory ==
    \E v \in CategoryValues : Build([feed EXCEPT !.Category = Append(@, v)], entry)

AddFeedContributor ==
    \E v \in PersonValues : Build([feed EXCEPT !.Contributor = Append(@, v)], entry)

SetFeedGenerator ==
    \E v \in GeneratorValues :
        feed.Generator = <<>> /\ Build([feed EXCEPT !.Generator = <<v>>], entry)

SetFeedIcon ==
    \E v \in URLValues : feed.Icon = "" /\ Build([feed EXCEPT !.Icon = v], entry)

SetFeedID == feed.ID = "" /\ Build([feed EXCEPT !.ID = "http://www.test.com/blog"], entry)

AddFeedLink ==
    \E v \in LinkValues : Build([feed EXCEPT !.Link = Append(@, v)], entry)

SetFeedLogo ==
    \E v \in URLValues : feed.Logo = "" /\ Build([feed EXCEPT !.Logo = v], entry)

SetFeedTitle == feed.Title = "" /\ Build([feed EXCEPT !.Title = "Test feed"], entry)

SetFeedUpdated ==
    \E v \in TimeValues : feed.Updated = "" /\ Build([feed EXCEPT !.Updated = v], entry)

(* feed.Entry = append(feed.Entry, entry), and the caller starts a new entry *)
AddFeedEntry == Build([feed EXCEPT !.Entry = Append(@, entry)], fresh.entry)

SetEntryBase ==
    \E v \in URLValues :
        entry.Common.Base = "" /\ Build(feed, [entry EXCEPT !.Common.Base = v])

AddEntryAuthor ==
    \E v \in PersonValues : Build(feed, [entry EXCEPT !.Author = Append(@, v)])

AddEntryCategory ==
    \E v \in CategoryValues : Build(feed, [entry EXCEPT !.Category = Append(@, v)])

SetEntryContent ==
    \E v \in TextValues :
        entry.Content = <<>> /\ Build(feed, [entry EXCEPT !.Content = <<v>>])

AddEntryContributor ==
    \E v \in PersonValues : Build(feed, [entry EXCEPT !.Contributor = Append(@, v)])

SetEntryID == entry.ID = "" /\ Build(feed, [entry EXCEPT !.ID = "http://www.test.com/1"])

AddEntryLink ==
    \E v \in LinkValues : Build(feed, [entry EXCEPT !.Link = Append(@, v)])

SetEntryPublished ==
    \E v \in TimeValues :
        entry.Published = "" /\ Build(feed, [entry EXCEPT !.Published = v])

(* entry.Source = &Source{Feed: &feed}: the feed built so far becomes the *)
(* entry's source feed, and the caller starts a new feed                  *)
SetEntrySource ==
    entry.Source = <<>> /\ Build(fresh.feed, [entry EXCEPT !.Source = <<Source(<<feed>>)>>])

(* entry.Source = &Source{}: the Feed pointer is left nil *)
SetEntrySourceNoFeed ==
    entry.Source = <<>> /\ Build(feed, [entry EXCEPT !.Source = <<Source(<<>>)>>])

SetEntrySummary ==
    \E v \in TextValues :
        entry.Summary = <<>> /\ Build(feed, [entry EXCEPT !.Summary = <<v>>])

SetEntryTitle == entry.Title = "" /\ Build(feed, [entry EXCEPT !.Title = "Test entry"])

SetEntryUpdated ==
    \E v \in TimeValues :
        entry.Updated = "" /\ Build(feed, [entry EXCEPT !.Updated = v])

(* err := feed.Validate() *)
CallFeedValidate ==
    /\ result.subject = "none"
    /\ result' = [subject |-> "feed"] @@ FeedValidate(feed)
    /\ UNCHANGED <<feed, entry, fresh, size>>

(* err := entry.Validate() *)
CallEntryValidate ==
    /\ result.subject = "none"
    /\ result' = [subject |-> "entry"] @@ EntryValidate(entry)
    /\ UNCHANGED <<feed, entry, fresh, size>>

Next ==
    \/ SetFeedBase \/ AddFeedAuthor \/ AddFeedCategory \/ AddFeedContributor
    \/ SetFeedGenerator \/ SetFeedIcon \/ SetFeedID \/ AddFeedLink \/ SetFeedLogo
    \/ SetFeedTitle \/ SetFeedUpdated \/ AddFeedEntry
    \/ SetEntryBase \/ AddEntryAuthor \/ AddEntryCategory \/ SetEntryContent
    \/ AddEntryContributor \/ SetEntryID \/ AddEntryLink \/ SetEntryPublished
    \/ SetEntrySource \/ SetEntrySourceNoFeed \/ SetEntrySummary \/ SetEntryTitle
    \/ SetEntryUpdated
    \/ CallFeedValidate \/ CallEntryValidate

Spec == Init /\ [][Next]_vars

(***************************************************************************)
(* Vocabulary of the properties.                                           *)
(***************************************************************************)
Count(m, issues) == Cardinality({i \in DOMAIN issues : issues[i] = m})

RECURSIVE TotalLen(_)
(* the summed length of a sequence of returned reports *)
TotalLen(reports) ==
    IF reports = <<>> THEN 0 ELSE Len(Head(reports).issues) + TotalLen(Tail(reports))

RECURSIVE CountIn(_, _)
(* occurrences of m over a sequence of returned reports *)
CountIn(m, reports) ==
    IF reports = <<>> THEN 0
    ELSE Count(m, Head(reports).issues) + CountIn(m, Tail(reports))

Alternates(links) == Cardinality({i \in DOMAIN links : links[i].Rel = "alternate"})

Optional(pointer, report(_)) == IF pointer = <<>> THEN <<>> ELSE <<report(pointer[1])>>

Each(xs, report(_)) == [i \in 1..Len(xs) |-> report(xs[i])]

(* The reports of the validators that Feed.Validate calls on f. *)
FeedNestedReports(f) ==
    <<validateCommon(f.Common)>>
    \o Each(f.Author, PersonValidate) \o Each(f.Category, CategoryValidate)
    \o Each(f.Contributor, PersonValidate) \o Optional(f.Generator, GeneratorValidate)
    \o Each(f.Link, LinkValidate)
    \o (IF f.Updated # "" THEN <<TimeStrValidate(f.Updated)>> ELSE <<>>)
    \o Each(f.Entry, EntryValidate)

(* The issues that the checks written in Feed.Validate itself add for f. *)
FeedOwnIssues(f) ==
    (IF Len(f.Author) = 0 /\ \E i \in DOMAIN f.Entry : Len(f.Entry[i].Author) = 0
     THEN <<AuthorMsg>> ELSE <<>>)
    \o (IF f.Icon # "" THEN urlParse(f.Icon) ELSE <<>>)
    \o (IF f.ID = "" THEN <<FeedIDMsg>> ELSE <<>>)
    \o [i \in 1..(Alternates(f.Link) - 1) |-> DupAlternateMsg]
    \o (IF f.Logo # "" THEN urlParse(f.Logo) ELSE <<>>)
    \o (IF f.Title = "" THEN <<FeedTitleMsg>> ELSE <<>>)
    \o (IF f.Updated = "" THEN <<FeedUpdatedMsg, FeedUpdatedMsg>> ELSE <<>>)

FeedReturned == result.subject = "feed" /\ result.kind # "panic"

EntryReturned == result.subject = "entry" /\ result.kind # "panic"

(* C1: whenever Feed.Validate returns, it returns nil exactly when neither *)
(* the feed's own checks nor any nested validator adds an issue, and       *)
(* otherwise its report holds every issue of the feed's own checks and of  *)
(* every nested report, each as often as it was added, and nothing else    *)
(* (so its length is the own issues plus the nested reports' lengths).     *)
C1_NoShortCircuit ==
    FeedReturned =>
        LET nested == FeedNestedReports(feed)
            own == FeedOwnIssues(feed)
        IN  /\ (result.kind = "nil") <=>
                   (own = <<>> /\ \A i \in DOMAIN nested : nested[i].kind = "nil")
            /\ result.kind = "nil" => result.issues = <<>>
            /\ Len(result.issues) = Len(own) + TotalLen(nested)
            /\ \A i \in DOMAIN result.issues :
                   LET m == result.issues[i]
                   IN  Count(m, result.issues) = Count(m, own) + CountIn(m, nested)
            /\ \A i \in DOMAIN own : Count(own[i], result.issues) >= 1
            /\ \A i \in DOMAIN nested : \A j \in DOMAIN nested[i].issues :
                   Count(nested[i].issues[j], result.issues) >= 1

(* A returned report with several own issues of the feed, a leaf report    *)
(* and the report of an entry that embeds a source feed.                   *)
C1_Witness ==
    /\ FeedReturned /\ result.kind = "err"
    /\ Len(FeedOwnIssues(feed)) >= 2
    /\ \E i \in DOMAIN feed.Entry :
           /\ feed.Entry[i].Source # <<>>
           /\ Len(EntryValidate(feed.Entry[i]).issues) >= 5
    /\ \E i \in DOMAIN feed.Author : PersonValidate(feed.Author[i]).kind = "err"

(* C2: whenever Feed.Validate returns on a feed whose id (title, updated)   *)
(* is empty, it returns an error whose report contains "Feed.ID can't be   *)
(* empty." ("Feed.Title ...", "Feed.Updated ..."), whatever else is wrong  *)
(* with the feed; when the field is not empty, every occurrence of the     *)
(* message in the report comes from a nested report, none from the feed's  *)
(* own checks.                                                             *)
C2_RequiredFeedFields ==
    FeedReturned =>
        LET nested == FeedNestedReports(feed)
            Required(value, msg) ==
                IF value = ""
                THEN result.kind = "err" /\ Count(msg, result.issues) >= 1
                ELSE Count(msg, result.issues) = CountIn(msg, nested)
        IN  /\ Required(feed.ID, FeedIDMsg)
            /\ Required(feed.Title, FeedTitleMsg)
            /\ Required(feed.Updated, FeedUpdatedMsg)

(* A feed with an empty id, a title and other defects (a link that does    *)
(* not parse, an entry with its own issues) has been validated.            *)
C2_Witness ==
    /\ FeedReturned
    /\ feed.ID = "" /\ feed.Title # ""
    /\ Count(FeedIDMsg, result.issues) = 1
    /\ Count(FeedTitleMsg, result.issues) = 0
    /\ Len(result.issues) > Len(FeedOwnIssues(feed))

(* C3 as stated: whenever Feed.Validate returns on a feed with two or more *)
(* alternate links, the feed's own link check has added the duplicate      *)
(* message exactly once.                                                   *)
C3_DupAlternateOnce ==
    (FeedReturned /\ Alternates(feed.Link) >= 2) =>
        Count(DupAlternateMsg, result.issues)
            - CountIn(DupAlternateMsg, FeedNestedReports(feed)) = 1

(* C3 amended: the feed's own link check adds the duplicate message once   *)
(* for every alternate link after the first: n alternates, n - 1 issues.   *)
C3_DupAlternatePerExtraLink ==
    (FeedReturned /\ Alternates(feed.Link) >= 2) =>
        Count(DupAlternateMsg, result.issues)
            - CountIn(DupAlternateMsg, FeedNestedReports(feed))
          = Alternates(feed.Link) - 1

(* Three alternate links, two duplicate issues. *)
C3_Witness ==
    /\ FeedReturned
    /\ Alternates(feed.Link) = 3
    /\ Count(DupAlternateMsg, result.issues) = 2

RECURSIVE AuthorMsgInFeed(_), AuthorMsgInSources(_)

(* 1 if the author-coverage rule is broken by f itself, else 0 *)
AuthorMsgOwn(f) ==
    IF Len(f.Author) = 0 /\ \E i \in DOMAIN f.Entry : Len(f.Entry[i].Author) = 0
    THEN 1 ELSE 0

(* the number of feeds that break the rule among the source feeds embedded *)
(* in the entries, at any depth                                            *)
AuthorMsgInSources(entries) ==
    IF entries = <<>> THEN 0
    ELSE (IF Head(entries).Source # <<>>
          THEN AuthorMsgInFeed(Head(entries).Source[1].Feed[1]) ELSE 0)
         + AuthorMsgInSources(Tail(entries))

AuthorMsgInFeed(f) == AuthorMsgOwn(f) + AuthorMsgInSources(f.Entry)

(* C4 as stated: whenever Feed.Validate returns on a feed without authors, *)
(* its report contains the author-coverage message exactly once if some    *)
(* entry has no author, and not at all if every entry has one.             *)
C4_AuthorMsgCountInReport ==
    (FeedReturned /\ Len(feed.Author) = 0) =>
        Count(AuthorMsg, result.issues)
          = IF \E i \in DOMAIN feed.Entry : Len(feed.Entry[i].Author) = 0 THEN 1 ELSE 0

(* C4 amended: on a feed without authors the feed's own check adds the     *)
(* message exactly once if some entry has no author (however many) and not *)
(* at all if every entry has one; the report holds that and one occurrence *)
(* more for every embedded source feed that breaks the rule itself.        *)
C4_AuthorMsgOwnCount ==
    (FeedReturned /\ Len(feed.Author) = 0) =>
        /\ Count(AuthorMsg, result.issues) - AuthorMsgInSources(feed.Entry)
             = IF \E i \in DOMAIN feed.Entry : Len(feed.Entry[i].Author) = 0
               THEN 1 ELSE 0
        /\ Count(AuthorMsg, result.issues) = AuthorMsgInFeed(feed)

(* Two entries without an author, one message. *)
C4_Witness ==
    /\ FeedReturned
    /\ Len(feed.Author) = 0
    /\ Cardinality({i \in DOMAIN feed.Entry : Len(feed.Entry[i].Author) = 0}) >= 2
    /\ Count(AuthorMsg, result.issues) = 1

SourceFeedOf(e) == e.Source[1].Feed[1]

(* C5: whenever Entry.Validate returns on an entry whose Source holds a    *)
(* feed, its report contains every issue that Feed.Validate reports on the *)
(* embedded feed, as often as reported there (a source feed without title  *)
(* surfaces "Feed.Title can't be empty."); and it contains                 *)
(* "Entry.Source can't contain any entries." if the embedded feed has      *)
(* entries, and not at all if it has none.                                 *)
C5_SourceFeedValidated ==
    (EntryReturned /\ entry.Source # <<>>) =>
        LET src == SourceFeedOf(entry)
            report == FeedValidate(src).issues
        IN  /\ \A i \in DOMAIN report :
                   Count(report[i], result.issues) >= Count(report[i], report)
            /\ src.Title = "" => Count(FeedTitleMsg, result.issues) >= 1
            /\ src.ID = "" => Count(FeedIDMsg, result.issues) >= 1
            /\ src.Updated = "" => Count(FeedUpdatedMsg, result.issues) >= 2
            /\ Len(src.Entry) > 0 => Count(EntrySourceMsg, result.issues) >= 1
            /\ Len(src.Entry) = 0 => Count(EntrySourceMsg, result.issues) = 0

(* A source feed with an entry and without a title has been validated. *)
C5_Witness ==
    /\ EntryReturned
    /\ entry.Source # <<>>
    /\ Len(SourceFeedOf(entry).Entry) > 0
    /\ SourceFeedOf(entry).Title = ""
    /\ Count(EntrySourceMsg, result.issues) = 1
    /\ Count(FeedTitleMsg, result.issues) = 1

EmptyTimeMsg == timeParse("")[1]

(* C6: whenever Entry.Validate returns on an entry whose id (title,        *)
(* updated) is empty, the entry's own checks have added "Entry.ID can't be *)
(* empty." ("Entry.Title ...", "Entry.Updated ...") exactly once: the      *)
(* report holds it once more than the embedded source feed's report does.  *)
(* With an empty updated no parse is attempted: the parser's issue for the *)
(* empty string is not in the report.                                      *)
C6_RequiredEntryFields ==
    EntryReturned =>
        LET nested == IF entry.Source # <<>>
                      THEN FeedValidate(SourceFeedOf(entry)).issues ELSE <<>>
            Required(value, msg) ==
                value = "" =>
                    /\ result.kind = "err"
                    /\ Count(msg, result.issues) - Count(msg, nested) = 1
        IN  /\ Required(entry.ID, EntryIDMsg)
            /\ Required(entry.Title, EntryTitleMsg)
            /\ Required(entry.Updated, EntryUpdatedMsg)
            /\ entry.Updated = "" => Count(EmptyTimeMsg, result.issues) = 0

(* An entry with empty id and updated whose source feed holds an entry     *)
(* with an empty id of its own.                                            *)
C6_Witness ==
    /\ EntryReturned
    /\ entry.ID = "" /\ entry.Updated = ""
    /\ entry.Source # <<>>
    /\ Count(EntryIDMsg, result.issues) = 2
    /\ Count(EntryUpdatedMsg, result.issues) = 2

RECURSIVE TextMsgInEntry(_), TextMsgInEntries(_)

OutsideEnumeration(text) == text.Type \notin {"", "text", "html", "xhtml"}

TextMsgInEntries(entries) ==
    IF entries = <<>> THEN 0
    ELSE TextMsgInEntry(Head(entries)) + TextMsgInEntries(Tail(entries))

(* the summaries with a type outside the enumeration, in e and in the      *)
(* entries of its source feed at any depth; contents are not counted       *)
TextMsgInEntry(e) ==
    (IF e.Summary # <<>> /\ OutsideEnumeration(e.Summary[1]) THEN 1 ELSE 0)
    + (IF e.Source # <<>> THEN TextMsgInEntries(SourceFeedOf(e).Entry) ELSE 0)

(* C7: whenever Entry.Validate returns, "Text.Type must be either: text,   *)
(* html or xhtml." is in the report once for every summary whose type is   *)
(* non-empty and outside the enumeration, and never for a content of       *)
(* whatever type nor for a summary with an empty or enumerated type.       *)
C7_TextTypeBySummaryOnly ==
    EntryReturned =>
        /\ Count(TextTypeMsg, result.issues) = TextMsgInEntry(entry)
        /\ (entry.Summary # <<>> /\ OutsideEnumeration(entry.Summary[1]))
               => Count(TextTypeMsg, result.issues) >= 1
        /\ (entry.Source = <<>>
            /\ ~(entry.Summary # <<>> /\ OutsideEnumeration(entry.Summary[1])))
               => Count(TextTypeMsg, result.issues) = 0

(* The same Text of type "invalid" as content and as summary: one issue.   *)
C7_Witness ==
    /\ EntryReturned
    /\ entry.Content # <<>> /\ entry.Summary # <<>>
    /\ entry.Content = entry.Summary
    /\ OutsideEnumeration(entry.Content[1])
    /\ Count(TextTypeMsg, result.issues) = 1

HasEmptyTerm(categories) == \E i \in DOMAIN categories : categories[i].Term = ""

(* C8: whenever Validate returns on a feed or an entry that has a Category *)
(* with an empty term, it returns an error (the report has an issue for    *)
(* the missing term).                                                      *)
C8_EmptyTermReported ==
    /\ (FeedReturned /\ HasEmptyTerm(feed.Category)) => result.kind = "err"
    /\ (EntryReturned /\ HasEmptyTerm(entry.Category)) => result.kind = "err"

(* the issues of the entry's summary, title and updated checks, in order *)
EntryTailIssues(e) ==
    (IF e.Summary # <<>> THEN TextValidate(e.Summary[1], FALSE).issues ELSE <<>>)
    \o (IF e.Title = "" THEN <<EntryTitleMsg>> ELSE <<>>)
    \o (IF e.Updated = "" THEN <<EntryUpdatedMsg>> ELSE timeParse(e.Updated))

(* C9 as stated: whenever Entry.Validate returns on an entry with a        *)
(* Source, the issues of the embedded feed stand in the report before the  *)
(* issues of the entry's summary, title and updated checks, which end it.  *)
C9_SourceIssuesAtStep9 ==
    (EntryReturned /\ entry.Source # <<>>) =>
        LET src == FeedValidate(SourceFeedOf(entry)).issues
            tail == EntryTailIssues(entry)
            n == Len(result.issues)
        IN  /\ n >= Len(src) + Len(tail)
            /\ SubSeq(result.issues, n - Len(tail) + 1, n) = tail
            /\ SubSeq(result.issues, n - Len(tail) - Len(src) + 1, n - Len(tail)) = src

(* C9 amended: the issues of the embedded feed end the entry's report, in  *)
(* the order Feed.Validate found them; right before them stand the issues  *)
(* of the entry's summary, title and updated checks, in that order, and    *)
(* right before those "Entry.Source can't contain any entries." if the     *)
(* embedded feed has entries.                                              *)
C9_SourceIssuesLast ==
    (EntryReturned /\ entry.Source # <<>>) =>
        LET src == FeedValidate(SourceFeedOf(entry)).issues
            tail == EntryTailIssues(entry)
            n == Len(result.issues)
            before == n - Len(src) - Len(tail)
        IN  /\ before >= 0
            /\ SubSeq(result.issues, n - Len(src) + 1, n) = src
            /\ SubSeq(result.issues, before + 1, n - Len(src)) = tail
            /\ Len(SourceFeedOf(entry).Entry) > 0 =>
                   before >= 1 /\ result.issues[before] = EntrySourceMsg

(* A report with the Source message, an issue of the summary and the       *)
(* issues of the embedded feed.                                            *)
C9_Witness ==
    /\ EntryReturned
    /\ entry.Source # <<>>
    /\ Len(SourceFeedOf(entry).Entry) > 0
    /\ entry.Summary # <<>> /\ OutsideEnumeration(entry.Summary[1])
    /\ Len(FeedValidate(SourceFeedOf(entry)).issues) >= 2
    /\ Count(EntrySourceMsg, result.issues) = 1
    /\ Count(TextTypeMsg, result.issues) = 1
    /\ Len(result.issues) >= Len(FeedValidate(SourceFeedOf(entry)).issues) + 2

(* C10: a call of Validate returns, success or a report of issues. *)
C10_ValidateReturns ==
    result.subject # "none" => result.kind \in {"nil", "err"}

(* C11: whenever Feed.Validate returns on a feed whose updated is empty,   *)
(* the feed's own checks have added "Feed.Updated can't be empty." exactly *)
(* twice, one right after the other (they are the last issues before the   *)
(* entries' reports), and no parse of the empty string was attempted; on a *)
(* feed whose updated is not empty they have added the message zero times  *)
(* and the result of parsing updated is merged exactly once, at that same  *)
(* place.                                                                  *)
C11_FeedUpdatedTwice ==
    FeedReturned =>
        LET entries == Each(feed.Entry, EntryValidate)
            k == Len(result.issues) - TotalLen(entries)
            own(m) == Count(m, result.issues) - CountIn(m, entries)
            parsed == timeParse(feed.Updated)
        IN  IF feed.Updated = ""
            THEN /\ own(FeedUpdatedMsg) = 2
                 /\ k >= 2
                 /\ result.issues[k - 1] = FeedUpdatedMsg
                 /\ result.issues[k] = FeedUpdatedMsg
                 /\ Count(EmptyTimeMsg, result.issues) = 0
            ELSE /\ own(FeedUpdatedMsg) = 0
                 /\ parsed # <<>> =>
                        /\ own(parsed[1]) = 1
                        /\ k >= 1 /\ result.issues[k] = parsed[1]
                 /\ parsed = <<>> =>
                        \A i \in 1..k : result.issues[i] # timeParse(BadTime)[1]

(* A feed with an empty updated and an entry whose source feed has an      *)
(* empty updated of its own: two own occurrences, two nested ones.         *)
C11_Witness ==
    /\ FeedReturned
    /\ feed.Updated = ""
    /\ \E i \in DOMAIN feed.Entry : feed.Entry[i].Source # <<>>
    /\ Count(FeedUpdatedMsg, result.issues) = 4

====
